---- MODULE Spec2Model ----
(***************************************************************************)
(* Flask-IIIF decorators (flask_iiif/decorators.py): error_handler,        *)
(* api_decorator and http_cache_decorator, nested in any combination and   *)
(* order around one view function, serving one request at a time.          *)
(*                                                                         *)
(* The Python call stack is the variable `stack`; a value or an exception  *)
(* travelling back to the caller is `ret`; `log` is the call-count         *)
(* instrumentation: one entry per call, return and raise of every          *)
(* function involved in the request.                                       *)
(***************************************************************************)
EXTENDS Integers, Sequences, FiniteSets, TLC

VARIABLES decorators, current_iiif, request, stack, ret, log

vars == <<decorators, current_iiif, request, stack, ret, log>>

---------------------------------------------------------------------------
(* Bounds of the model *)

\* timestamps are whole seconds 1..MaxTime (the resolution of an HTTP date)
MaxTime == 2

---------------------------------------------------------------------------
(* Values *)

\* Python's None, and a value that is present
None == <<>>
Some(v) == <<v>>

\* HTTP status codes written in the source
InternalServerError == 500
BadRequest == 400
NotModified == 304

Tags == {"abc123", "xyz999"}
\* what etag_callback may return: None, the empty string, or a tag
EtagValues == {None, Some("")} \cup {Some(t) : t \in Tags}
Times == 1..MaxTime
\* what last_modified_callback may return: None or a datetime
LastModValues == {None} \cup {Some(t) : t \in Times}

Args == {"args1", "args2"}

ProcessingKinds == {"MultimediaImageCropError", "MultimediaImageResizeError",
                    "MultimediaImageFormatError", "MultimediaImageRotateError",
                    "MultimediaImageQualityError"}
ValidationKinds == {"IIIFValidatorError"}
DomainKinds == {"MultimediaError", "MultimediaImageNotFound"}
ClassifiedKinds == ProcessingKinds \cup ValidationKinds \cup DomainKinds
\* a failure of no class named in error_handler's except clauses
OtherKinds == {"ValueError"}
Kinds == ClassifiedKinds \cup OtherKinds

NoMessage == ""
\* an exception instance; data is what flask_restful.abort attaches
Exc(kind, message, code) ==
    [kind |-> kind, message |-> message, code |-> code, data |-> None]
\* the failures raised: every kind, with two (message, code) pairs each
Errors == {Exc(k, "m1", 403) : k \in Kinds} \cup {Exc(k, "m2", 404) : k \in Kinds}

\* flask_restful.abort(http_status_code, message=..., code=...): raises the
\* HTTPException of that status with the keyword arguments as its data
abort(http_status_code, message, code) ==
    [kind |-> "HTTPException", message |-> NoMessage, code |-> http_status_code,
     data |-> Some([message |-> message, code |-> code])]

NoHeaders == [ETag |-> None, LastModified |-> None]
\* a view's return value that is not a Response object: a body, or (body, status)
Rv(body, status) ==
    [kind |-> "rv", body |-> body, status |-> status, headers |-> NoHeaders]
\* the views' results: a bare body, or a Response object without validators
ViewResults == {Rv("image", None),
                [kind |-> "Response", body |-> "image", status |-> None,
                 headers |-> NoHeaders]}
HookResults == {"None", "ignored"}

DecoratorNames == {"error_handler", "api_decorator", "http_cache_decorator"}
\* the nestings: every sequence of distinct decorators, outermost first
RECURSIVE Nestings(_)
Nestings(n) ==
    IF n = 0 THEN {<<>>}
    ELSE LET shorter == Nestings(n - 1)
         IN shorter \cup
            {Append(s, d) : s \in {t \in shorter : Len(t) = n - 1},
                            d \in DecoratorNames}
AllNestings ==
    {s \in Nestings(Cardinality(DecoratorNames)) :
        \A i, j \in 1..Len(s) : i # j => s[i] # s[j]}

\* the parsed If-None-Match header: absent, "*", or a list of tags
IfNoneMatchValues ==
    {[star |-> FALSE, tags |-> {}], [star |-> TRUE, tags |-> {}]}
      \cup {[star |-> FALSE, tags |-> {t}] : t \in Tags}
IfModifiedSinceValues == {None} \cup {Some(t) : t \in Times}

---------------------------------------------------------------------------
(* Pure parts of the decorators *)

\* Python truthiness of an etag: neither None nor the empty string
Truthy(etag) == etag # None /\ etag # Some("")
\* Python truthiness of a last-modified value: a datetime is always true
TruthyDate(last_mod) == last_mod # None

\* the generic clause placed first: every classified failure keeps its code
Translate_GenericFirst(error) ==
    IF error.kind \in ClassifiedKinds
      THEN abort(error.code, error.message, error.code)
    ELSE error

\* the generic clause aborting with a fixed 500
Translate_DomainFixed500(error) ==
    IF error.kind \in ProcessingKinds \cup DomainKinds
      THEN abort(InternalServerError, error.message, InternalServerError)
    ELSE IF error.kind \in ValidationKinds
      THEN abort(BadRequest, error.message, BadRequest)
    ELSE error

\* a bare `except Exception` in place of the listed classes
Translate_CatchAll(error) ==
    IF error.kind \in ValidationKinds
      THEN abort(BadRequest, error.message, BadRequest)
    ELSE IF error.kind \in DomainKinds
      THEN abort(error.code, error.message, error.code)
    ELSE abort(InternalServerError, error.message, InternalServerError)

\* the crop failure missing from the first except clause
Translate_CropNotListed(error) ==
    IF error.kind \in ProcessingKinds \ {"MultimediaImageCropError"}
      THEN abort(InternalServerError, error.message, InternalServerError)
    ELSE IF error.kind \in ValidationKinds
      THEN abort(BadRequest, error.message, BadRequest)
    ELSE IF error.kind \in DomainKinds
      THEN abort(error.code, error.message, error.code)
    ELSE error

\* the abort message replaced by a fixed text
Translate_MessageDropped(error) ==
    IF error.kind \in ProcessingKinds
      THEN abort(InternalServerError, NoMessage, InternalServerError)
    ELSE IF error.kind \in ValidationKinds
      THEN abort(BadRequest, NoMessage, BadRequest)
    ELSE IF error.kind \in DomainKinds
      THEN abort(error.code, NoMessage, error.code)
    ELSE error

\* error_handler's except clauses, first match wins
Translate(error) ==
    IF error.kind \in ProcessingKinds
      THEN abort(InternalServerError, error.message, InternalServerError)
    ELSE IF error.kind \in ValidationKinds
      THEN abort(BadRequest, error.message, BadRequest)
    ELSE IF error.kind \in DomainKinds
      THEN abort(error.code, error.message, error.code)
    ELSE error

\* is_resource_modified that compares the dates only
is_resource_modified_DatesOnly(environ, etag, last_modified) ==
    ~(/\ environ.if_modified_since # None
      /\ last_modified # None
      /\ last_modified[1] <= environ.if_modified_since[1])

\* is_resource_modified that takes a match on either header
is_resource_modified_EitherMatch(environ, etag, last_modified) ==
    ~(\/ /\ environ.if_modified_since # None
         /\ last_modified # None
         /\ last_modified[1] <= environ.if_modified_since[1]
      \/ /\ Truthy(etag)
         /\ \/ environ.if_none_match.star
            \/ etag[1] \in environ.if_none_match.tags)

\* werkzeug.http.is_resource_modified for a GET/HEAD request
is_resource_modified(environ, etag, last_modified) ==
    LET modified_since == environ.if_modified_since
        if_none_match == environ.if_none_match
        by_date == /\ modified_since # None
                   /\ last_modified # None
                   /\ last_modified[1] <= modified_since[1]
        unmodified ==
            IF Truthy(etag) /\ (if_none_match.star \/ if_none_match.tags # {})
              THEN if_none_match.star \/ etag[1] \in if_none_match.tags
              ELSE by_date
    IN ~unmodified

\* `if etag is not None or last_mod is not None`
CacheValuesAvailable_NotNone(etag, last_mod) == etag # None \/ last_mod # None

\* `if etag or last_mod`
CacheValuesAvailable(etag, last_mod) == Truthy(etag) \/ TruthyDate(last_mod)

\* flask.make_response: a Response object of the view's return value
make_response(rv) == [rv EXCEPT !.kind = "Response"]

\* both headers set under `if etag`
WithCacheHeaders_EtagGuardTwice(res, etag, last_mod) ==
    [res EXCEPT !.headers =
        [ETag |-> IF Truthy(etag) THEN etag ELSE res.headers.ETag,
         LastModified |-> IF Truthy(etag) THEN last_mod
                          ELSE res.headers.LastModified]]

\* res.set_etag(etag) if etag; res.last_modified = last_mod if last_mod
WithCacheHeaders(res, etag, last_mod) ==
    [res EXCEPT !.headers =
        [ETag |-> IF Truthy(etag) THEN etag ELSE res.headers.ETag,
         LastModified |-> IF TruthyDate(last_mod) THEN last_mod
                          ELSE res.headers.LastModified]]

\* the hook never looked up
HookConfigured_Never == FALSE

\* `if current_iiif.api_decorator_callback`
HookConfigured == current_iiif.api_decorator_callback

---------------------------------------------------------------------------
(* The call stack *)

NoRet == [type |-> "none", val |-> None]
Return(v) == [type |-> "return", val |-> v]
Raise(e) == [type |-> "raise", val |-> e]

\* the i-th function of the decorated view, outermost first; the view is last
FnAt(i) == IF i <= Len(decorators) THEN decorators[i] ELSE "view"

Frame(fn, args) ==
    [fn |-> fn, pc |-> "enter", args |-> args, etag |-> None, last_mod |-> None]

Top == stack[Len(stack)]
Running(fn, pc) == stack # <<>> /\ Top.fn = fn /\ Top.pc = pc
\* the function the running decorator wraps
Callee == FnAt(Len(stack) + 1)

Ev(fn, ev, val) == [fn |-> fn, ev |-> ev, val |-> val]
ExitEv(fn, r) == Ev(fn, r.type, r.val)

SetTop(f) == [stack EXCEPT ![Len(stack)] = f]
Pop == SubSeq(stack, 1, Len(stack) - 1)

\* f(*args, **kwargs) inside a decorator: the decorator waits at `pc`
CallF(pc, events) ==
    /\ stack' = Append(SetTop([Top EXCEPT !.pc = pc]), Frame(Callee, Top.args))
    /\ log' = log \o events \o <<Ev(Callee, "call", Top.args)>>
    /\ ret' = NoRet

\* the running function returns or raises `r`
Exit(r, events) ==
    /\ stack' = Pop
    /\ log' = log \o events \o <<ExitEv(Top.fn, r)>>
    /\ ret' = r

---------------------------------------------------------------------------
(* Actions *)

Init ==
    /\ decorators \in AllNestings
    /\ current_iiif \in [api_decorator_callback : BOOLEAN,
                         etag_callback : BOOLEAN,
                         last_modified_callback : BOOLEAN]
    /\ request = [if_none_match |-> [star |-> FALSE, tags |-> {}],
                  if_modified_since |-> None]
    /\ stack = <<>>
    /\ ret = NoRet
    /\ log = <<>>

\* the framework dispatches a request to the decorated view
Dispatch ==
    /\ stack = <<>> /\ ret.type = "none"
    /\ \E inm \in IfNoneMatchValues, ims \in IfModifiedSinceValues, a \in Args :
         /\ request' = [if_none_match |-> inm, if_modified_since |-> ims]
         /\ stack' = <<Frame(FnAt(1), a)>>
         /\ log' = <<Ev(FnAt(1), "call", a)>>
    /\ ret' = NoRet
    /\ UNCHANGED <<decorators, current_iiif>>

\* the view function itself: returns a result or raises
View ==
    /\ Running("view", "enter")
    /\ \E r \in {Return(v) : v \in ViewResults} \cup {Raise(e) : e \in Errors} :
         Exit(r, <<>>)
    /\ UNCHANGED <<decorators, current_iiif, request>>

\* error_handler.inner: try: return f(*args, **kwargs)
ErrorHandlerTry ==
    /\ Running("error_handler", "enter")
    /\ CallF("try", <<>>)
    /\ UNCHANGED <<decorators, current_iiif, request>>

\* error_handler.inner: f returned
ErrorHandlerReturn ==
    /\ Running("error_handler", "try")
    /\ ret.type = "return"
    /\ Exit(ret, <<>>)
    /\ UNCHANGED <<decorators, current_iiif, request>>

\* error_handler.inner: f raised; the except clauses
ErrorHandlerExcept ==
    /\ Running("error_handler", "try")
    /\ ret.type = "raise"
    /\ Exit(Raise(Translate(ret.val)), <<>>)
    /\ UNCHANGED <<decorators, current_iiif, request>>

\* api_decorator.inner up to the call of f: the hook, then f
ApiDecoratorInner ==
    /\ Running("api_decorator", "enter")
    /\ IF HookConfigured
         THEN \/ \E h \in HookResults :
                   CallF("f", <<Ev("api_decorator_callback", "call", Top.args),
                                Ev("api_decorator_callback", "return", h)>>)
              \/ \E e \in Errors :
                   Exit(Raise(e),
                        <<Ev("api_decorator_callback", "call", Top.args),
                          Ev("api_decorator_callback", "raise", e)>>)
         ELSE CallF("f", <<>>)
    /\ UNCHANGED <<decorators, current_iiif, request>>

\* api_decorator.inner: return f(*args, **kwargs)
ApiDecoratorExit ==
    /\ Running("api_decorator", "f")
    /\ ret.type # "none"
    /\ Exit(ret, <<>>)
    /\ UNCHANGED <<decorators, current_iiif, request>>

\* http_cache_decorator.inner: etag
HttpCacheEtag ==
    /\ Running("http_cache_decorator", "enter")
    /\ IF current_iiif.etag_callback
         THEN \/ \E v \in EtagValues :
                   /\ stack' = SetTop([Top EXCEPT !.etag = v, !.pc = "last_mod"])
                   /\ log' = log \o <<Ev("etag_callback", "call", Top.args),
                                      Ev("etag_callback", "return", v)>>
                   /\ ret' = NoRet
              \/ \E e \in Errors :
                   Exit(Raise(e), <<Ev("etag_callback", "call", Top.args),
                                    Ev("etag_callback", "raise", e)>>)
         ELSE /\ stack' = SetTop([Top EXCEPT !.etag = None, !.pc = "last_mod"])
              /\ UNCHANGED <<log, ret>>
    /\ UNCHANGED <<decorators, current_iiif, request>>

\* http_cache_decorator.inner: last_mod
HttpCacheLastMod ==
    /\ Running("http_cache_decorator", "last_mod")
    /\ IF current_iiif.last_modified_callback
         THEN \/ \E v \in LastModValues :
                   /\ stack' = SetTop([Top EXCEPT !.last_mod = v, !.pc = "check"])
                   /\ log' = log \o
                        <<Ev("last_modified_callback", "call", Top.args),
                          Ev("last_modified_callback", "return", v)>>
                   /\ ret' = NoRet
              \/ \E e \in Errors :
                   Exit(Raise(e),
                        <<Ev("last_modified_callback", "call", Top.args),
                          Ev("last_modified_callback", "raise", e)>>)
         ELSE /\ stack' = SetTop([Top EXCEPT !.last_mod = None, !.pc = "check"])
              /\ UNCHANGED <<log, ret>>
    /\ UNCHANGED <<decorators, current_iiif, request>>

\* http_cache_decorator.inner: the freshness check, the 304 or the call of f
HttpCacheCheck ==
    /\ Running("http_cache_decorator", "check")
    /\ IF CacheValuesAvailable(Top.etag, Top.last_mod)
         THEN LET consulted == <<Ev("is_resource_modified", "call", request)>>
              IN IF ~is_resource_modified(request, Top.etag, Top.last_mod)
                   THEN Exit(Return(Rv("", Some(NotModified))), consulted)
                   ELSE CallF("make_response", consulted)
         ELSE CallF("return_f", <<>>)
    /\ UNCHANGED <<decorators, current_iiif, request>>

\* http_cache_decorator.inner: f returned or raised
HttpCacheExit ==
    /\ stack # <<>> /\ Top.fn = "http_cache_decorator"
    /\ ret.type # "none"
    /\ \/ /\ Top.pc = "make_response"
          /\ ret.type = "return"
          /\ Exit(Return(WithCacheHeaders(make_response(ret.val),
                                          Top.etag, Top.last_mod)), <<>>)
       \/ /\ Top.pc = "make_response"
          /\ ret.type = "raise"
          /\ Exit(ret, <<>>)
       \/ /\ Top.pc = "return_f"
          /\ Exit(ret, <<>>)
    /\ UNCHANGED <<decorators, current_iiif, request>>

\* the framework takes the outcome; the next request may come
Finish ==
    /\ stack = <<>> /\ ret.type # "none"
    /\ ret' = NoRet
    /\ log' = <<>>
    /\ request' = [if_none_match |-> [star |-> FALSE, tags |-> {}],
                   if_modified_since |-> None]
    /\ UNCHANGED <<decorators, current_iiif, stack>>

Next ==
    \/ Dispatch
    \/ View
    \/ ErrorHandlerTry
    \/ ErrorHandlerReturn
    \/ ErrorHandlerExcept
    \/ ApiDecoratorInner
    \/ ApiDecoratorExit
    \/ HttpCacheEtag
    \/ HttpCacheLastMod
    \/ HttpCacheCheck
    \/ HttpCacheExit
    \/ Finish

Spec == Init /\ [][Next]_vars

---------------------------------------------------------------------------
(* Reading the instrumentation *)

Cache == "http_cache_decorator"

LogIdx(fn, evs) == {i \in DOMAIN log : log[i].fn = fn /\ log[i].ev \in evs}
Calls(fn) == Cardinality(LogIdx(fn, {"call"}))
Returned(fn) == LogIdx(fn, {"return"}) # {}
Raised(fn) == LogIdx(fn, {"raise"}) # {}
Exited(fn) == Returned(fn) \/ Raised(fn)
TheEv(fn, evs) == log[CHOOSE i \in LogIdx(fn, evs) : TRUE]
TheExit(fn) == TheEv(fn, {"return", "raise"})
\* fn ended the way g ended: the same value returned or the same failure raised
SameOutcome(fn, g) ==
    /\ Exited(fn) /\ Exited(g)
    /\ TheExit(fn).ev = TheExit(g).ev
    /\ TheExit(fn).val = TheExit(g).val

Has(fn) == \E i \in DOMAIN decorators : decorators[i] = fn
PosOf(fn) == CHOOSE i \in DOMAIN decorators : decorators[i] = fn
\* the operation that decorator fn wraps
Wrapped(fn) == FnAt(PosOf(fn) + 1)

Done == stack = <<>> /\ ret.type # "none"

\* the values http_cache_decorator computed (None without a callback)
ComputedEtag ==
    IF Returned("etag_callback")
      THEN TheEv("etag_callback", {"return"}).val ELSE None
ComputedLastMod ==
    IF Returned("last_modified_callback")
      THEN TheEv("last_modified_callback", {"return"}).val ELSE None
\* http_cache_decorator ended and no cache callback failed on the way
CacheDecided ==
    /\ Exited(Cache)
    /\ ~Raised("etag_callback") /\ ~Raised("last_modified_callback")
EtagMatches ==
    /\ Truthy(ComputedEtag)
    /\ \/ request.if_none_match.star
       \/ ComputedEtag[1] \in request.if_none_match.tags
DateFresh ==
    /\ ComputedLastMod # None
    /\ request.if_modified_since # None
    /\ ComputedLastMod[1] <= request.if_modified_since[1]
IfNoneMatchPresent ==
    request.if_none_match.star \/ request.if_none_match.tags # {}
Is304 ==
    /\ Returned(Cache)
    /\ TheEv(Cache, {"return"}).val = Rv("", Some(NotModified))

---------------------------------------------------------------------------
(* http_cache_decorator *)

\* C1: when the etag callback returned a value E and the request's
\* If-None-Match is E, the wrapped operation is never invoked and the
\* decorated call, once the freshness check is reached, returns ('', 304).
C1_EtagMatchGives304 ==
    (/\ Has(Cache)
     /\ Returned("etag_callback")
     /\ Truthy(ComputedEtag)
     /\ request.if_none_match = [star |-> FALSE, tags |-> {ComputedEtag[1]}])
    => /\ Calls(Wrapped(Cache)) = 0
       /\ CacheDecided => Is304
       /\ Exited(Cache) /\ ~Is304 =>
            /\ Raised("last_modified_callback")
            /\ SameOutcome(Cache, "last_modified_callback")

C1_Witness ==
    /\ Has(Cache) /\ Done
    /\ ComputedEtag = Some("abc123")
    /\ request.if_none_match = [star |-> FALSE, tags |-> {"abc123"}]
    /\ Is304
    /\ Calls(Wrapped(Cache)) = 0

\* the response http_cache_decorator builds from the wrapped operation's
\* result rv: the same body and status, ETag and Last-Modified set to the
\* values that were computed and to nothing else
ExpectedResponse(rv) ==
    [kind |-> "Response", body |-> rv.body, status |-> rv.status,
     headers |-> [ETag |-> IF ComputedEtag \in {None, Some("")}
                             THEN None ELSE ComputedEtag,
                  LastModified |-> ComputedLastMod]]

\* C2: when etag or last_mod is computed and neither conditional header
\* matches, the wrapped operation is invoked exactly once and its response
\* is returned carrying exactly the computed ones of ETag and Last-Modified
\* (a failure of the wrapped operation is passed on as it is).
C2_StaleInvokesAndSetsHeaders ==
    (/\ Has(Cache)
     /\ CacheDecided
     /\ Truthy(ComputedEtag) \/ ComputedLastMod # None
     /\ ~EtagMatches /\ ~DateFresh)
    => /\ Calls(Wrapped(Cache)) = 1
       /\ Returned(Wrapped(Cache)) =>
            /\ Returned(Cache)
            /\ TheExit(Cache).val = ExpectedResponse(TheExit(Wrapped(Cache)).val)
       /\ Raised(Wrapped(Cache)) => SameOutcome(Cache, Wrapped(Cache))

C2_Witness ==
    /\ Has(Cache) /\ Done
    /\ ComputedEtag = Some("abc123")
    /\ ComputedLastMod = None
    /\ request.if_none_match = [star |-> FALSE, tags |-> {"xyz999"}]
    /\ Calls(Wrapped(Cache)) = 1
    /\ Returned(Cache)
    /\ TheExit(Cache).val.headers = [ETag |-> Some("abc123"), LastModified |-> None]

\* C6: when neither an etag nor a last-modified value is available, the
\* wrapped operation is invoked exactly once, the decorated call ends
\* exactly as it ended (no 304, no header added), and the request's
\* conditional headers are not consulted.
C6_NoValuesPassThrough ==
    (/\ Has(Cache)
     /\ CacheDecided
     /\ ~Truthy(ComputedEtag) /\ ComputedLastMod = None)
    => /\ Calls(Wrapped(Cache)) = 1
       /\ SameOutcome(Cache, Wrapped(Cache))
       /\ ~Is304
       /\ Calls("is_resource_modified") = 0

C6_Witness ==
    /\ Has(Cache) /\ Done
    /\ current_iiif.etag_callback /\ ComputedEtag = None
    /\ ~current_iiif.last_modified_callback
    /\ request.if_none_match.star
    /\ Returned(Wrapped(Cache))
    /\ SameOutcome(Cache, Wrapped(Cache))
    /\ TheExit(Cache).val.kind = "rv"

\* C10 as stated: a match on either conditional header gives the 304
\* without the wrapped operation being invoked.
C10_EitherMatchSuffices ==
    (Has(Cache) /\ CacheDecided /\ (EtagMatches \/ DateFresh))
    => Is304 /\ Calls(Wrapped(Cache)) = 0

\* C10 amended: the 304 is returned, and the wrapped operation not invoked,
\* exactly when If-None-Match matches the computed etag, or If-Modified-Since
\* is not earlier than last_mod while no etag is computed or the request has
\* no If-None-Match; a present If-None-Match that does not match the computed
\* etag overrides a fresh date.
C10_EtagMatchOverridesDate ==
    (Has(Cache) /\ CacheDecided)
    => LET fresh == \/ EtagMatches
                    \/ /\ DateFresh
                       /\ ~(Truthy(ComputedEtag) /\ IfNoneMatchPresent)
       IN /\ fresh => Is304 /\ Calls(Wrapped(Cache)) = 0
          /\ ~fresh => ~Is304 /\ Calls(Wrapped(Cache)) = 1

C10_Witness ==
    /\ Has(Cache) /\ Done
    /\ EtagMatches /\ ~DateFresh
    /\ ComputedLastMod # None /\ request.if_modified_since # None
    /\ Is304
    /\ Calls(Wrapped(Cache)) = 0

---------------------------------------------------------------------------
(* api_decorator *)

Api == "api_decorator"
Hook == "api_decorator_callback"

\* C3: with a hook configured, a decorated call invokes the hook exactly
\* once, with the call's arguments, before the wrapped operation starts; if
\* the hook raises, the wrapped operation is not invoked and the failure
\* propagates; if it returns, the wrapped operation is invoked exactly once
\* with the same arguments and the call ends as the wrapped operation ended.
C3_HookOnceBeforeWrapped ==
    (Has(Api) /\ current_iiif.api_decorator_callback)
    => /\ Calls(Wrapped(Api)) > 0 =>
            /\ Returned(Hook)
            /\ \A i \in LogIdx(Hook, {"call", "return"}) :
                 \A j \in LogIdx(Wrapped(Api), {"call"}) : i < j
       /\ Exited(Api) =>
            /\ Calls(Hook) = 1
            /\ TheEv(Hook, {"call"}).val = TheEv(Api, {"call"}).val
            /\ Raised(Hook) =>
                 /\ Calls(Wrapped(Api)) = 0
                 /\ SameOutcome(Api, Hook)
            /\ Returned(Hook) =>
                 /\ Calls(Wrapped(Api)) = 1
                 /\ TheEv(Wrapped(Api), {"call"}).val = TheEv(Api, {"call"}).val
                 /\ SameOutcome(Api, Wrapped(Api))

C3_Witness ==
    /\ Has(Api) /\ current_iiif.api_decorator_callback /\ Done
    /\ Returned(Hook) /\ TheEv(Hook, {"return"}).val = "ignored"
    /\ TheEv(Hook, {"call"}).val = "args2"
    /\ Calls(Wrapped(Api)) = 1
    /\ Returned(Wrapped(Api))
    /\ SameOutcome(Api, Wrapped(Api))

---------------------------------------------------------------------------
(* error_handler *)

Handler == "error_handler"

\* error_handler ended by aborting with this status, message and code
Aborted(status, message, code) ==
    /\ Raised(Handler)
    /\ TheExit(Handler).val.kind = "HTTPException"
    /\ TheExit(Handler).val.code = status
    /\ TheExit(Handler).val.data = Some([message |-> message, code |-> code])

\* C4: a processing failure of the wrapped operation gives HTTP 500 with
\* the failure's message, a validation failure HTTP 400 with its message,
\* whatever status code the failure itself carries.
C4_ProcessingIs500ValidationIs400 ==
    (Has(Handler) /\ Exited(Handler) /\ Raised(Wrapped(Handler)))
    => LET error == TheExit(Wrapped(Handler)).val
       IN /\ error.kind \in ProcessingKinds =>
               Aborted(InternalServerError, error.message, InternalServerError)
          /\ error.kind \in ValidationKinds =>
               Aborted(BadRequest, error.message, BadRequest)

C4_Witness ==
    /\ Has(Handler) /\ Done
    /\ Raised(Wrapped(Handler))
    /\ TheExit(Wrapped(Handler)).val = Exc("MultimediaImageRotateError", "m2", 404)
    /\ Aborted(InternalServerError, "m2", InternalServerError)

\* C5: a generic domain failure or a not-found failure of the wrapped
\* operation carrying code C and message M gives the error response of
\* status C with message M and code C.
C5_DomainFailureKeepsItsCode ==
    (Has(Handler) /\ Exited(Handler) /\ Raised(Wrapped(Handler)))
    => LET error == TheExit(Wrapped(Handler)).val
       IN error.kind \in DomainKinds =>
            Aborted(error.code, error.message, error.code)

C5_Witness ==
    /\ Has(Handler) /\ Done
    /\ Raised(Wrapped(Handler))
    /\ TheExit(Wrapped(Handler)).val = Exc("MultimediaImageNotFound", "m2", 404)
    /\ Aborted(404, "m2", 404)

\* C9: error_handler invokes the wrapped operation exactly once; a result
\* is returned unchanged, and a failure outside the processing, validation,
\* domain and not-found kinds propagates unchanged.
C9_TransparentOtherwise ==
    (Has(Handler) /\ Exited(Handler))
    => /\ Calls(Wrapped(Handler)) = 1
       /\ Returned(Wrapped(Handler)) => SameOutcome(Handler, Wrapped(Handler))
       /\ (/\ Raised(Wrapped(Handler))
           /\ TheExit(Wrapped(Handler)).val.kind \notin ClassifiedKinds)
          => SameOutcome(Handler, Wrapped(Handler))
       /\ Returned(Handler) => Returned(Wrapped(Handler))

C9_Witness ==
    /\ Has(Handler) /\ Done
    /\ Raised(Wrapped(Handler))
    /\ TheExit(Wrapped(Handler)).val.kind = "ValueError"
    /\ SameOutcome(Handler, Wrapped(Handler))
    /\ Calls(Wrapped(Handler)) = 1

---------------------------------------------------------------------------
(* The decorators together *)

AllThree == Len(decorators) = Cardinality(DecoratorNames)

\* C7: with all three decorators around the view, in whatever order, a
\* processing failure of the view ends the request with HTTP 500 and the
\* failure's message.
C7_OrderKeepsErrorMapping ==
    (AllThree /\ Done /\ Raised("view"))
    => LET error == TheExit("view").val
       IN error.kind \in ProcessingKinds =>
            ret = Raise(abort(InternalServerError, error.message,
                              InternalServerError))

C7_Witness ==
    /\ decorators = <<"http_cache_decorator", "api_decorator", "error_handler">>
    /\ Done
    /\ current_iiif.api_decorator_callback /\ Returned(Hook)
    /\ ComputedEtag = Some("abc123")
    /\ request.if_none_match = [star |-> FALSE, tags |-> {"xyz999"}]
    /\ TheExit("view").val = Exc("MultimediaImageCropError", "m1", 403)
    /\ ret = Raise(abort(InternalServerError, "m1", InternalServerError))

Callbacks == {Hook, "etag_callback", "last_modified_callback"}
\* the decorator that calls the callback
CallerOf(cb) == IF cb = Hook THEN Api ELSE Cache
\* error_handler is wrapped around the decorator that calls the callback
HandlerEncloses(cb) == Has(Handler) /\ PosOf(Handler) < PosOf(CallerOf(cb))

\* C8 as stated: a failure of the hook or of a cache callback always leaves
\* the decorated call untranslated.
C8_CallbackFailureNeverTranslated ==
    \A cb \in Callbacks :
        (Done /\ Raised(cb)) => ret = Raise(TheExit(cb).val)

\* C8 amended: a failure of the hook or of a cache callback leaves the
\* decorated call untranslated unless it is of a processing, validation,
\* domain or not-found kind and error_handler is wrapped around the
\* decorator that calls the callback; then it ends the request with the
\* error response of that kind (500, 400, or the failure's own code).
C8_CallbackFailureTranslatedOnlyInsideHandler ==
    \A cb \in Callbacks :
        (Done /\ Raised(cb))
        => LET error == TheExit(cb).val
           IN IF HandlerEncloses(cb) /\ error.kind \in ClassifiedKinds
                THEN /\ ret.type = "raise"
                     /\ ret.val.kind = "HTTPException"
                     /\ ret.val.code =
                          IF error.kind \in ProcessingKinds
                            THEN InternalServerError
                          ELSE IF error.kind \in ValidationKinds
                            THEN BadRequest
                          ELSE error.code
                     /\ ret.val.data =
                          Some([message |-> error.message, code |-> ret.val.code])
                ELSE ret = Raise(error)

C8_Witness ==
    /\ decorators = <<"error_handler", "api_decorator">>
    /\ Done
    /\ Raised(Hook)
    /\ TheExit(Hook).val = Exc("MultimediaImageCropError", "m1", 403)
    /\ ret = Raise(abort(InternalServerError, "m1", InternalServerError))
    /\ Calls("view") = 0

====
